---- MODULE Spec2Model ----
(***************************************************************************)
(* Scribes backend: circle membership / authorization and note sharing     *)
(* (services + repositories over the relational store) and the JWT /       *)
(* refresh-token lifecycle.  Every request handler is one action;          *)
(* create_circle, which commits twice, is two steps with the store visible *)
(* in between.                                                             *)
(***************************************************************************)
EXTENDS Integers, FiniteSets, Sequences, TLC

\* ---------------------------------------------------------------- bounds
MaxUsers == 2        \* users 1..MaxUsers exist; id MaxUsers+1 does not
MaxCircles == 1      \* circle ids handed out by the store
MaxOps == 4          \* circle requests served
MaxTokOps == 4       \* token requests served
MaxJwtOps == 3       \* calls of the security.jwt functions
MaxTicks == 2        \* clock advances
MaxSub == 10         \* largest id handed to the token functions as sub
MaxRaceOps == 2      \* add_member and invite_member calls served step by step

\* ------------------------------------------------------ program constants
ACCESS_TOKEN_EXPIRE_MINUTES == 30
REFRESH_TOKEN_EXPIRE_DAYS == 7

Users == 1..MaxUsers
UserIds == 1..(MaxUsers + 1)
Roles == {"owner", "admin", "member"}
Statuses == {"invited", "active", "inactive"}
Unset == "unset"
NULL == 0

VARIABLES
    circles,      \* table circles: [id, owner_id, is_private]
    members,      \* table circle_members: [circle_id, user_id, role, status, invited_by]
    circle_notes, \* table circle_notes: [circle_id, note_id]
    creating,     \* create_circle calls between their two commits: [id, owner_id]
    created_ok,   \* ids of circles whose create_circle call returned
    nextCircleId, \* next primary key of table circles
    nops,         \* circle requests served so far
    last,         \* the latest circle request and its outcome
    now,          \* datetime.utcnow(), in minutes
    refresh_tokens, \* table refresh_tokens: [token, user_id, expires_at, revoked]
    is_active,    \* users.is_active
    issued,       \* tokens handed out: [token, sub, at, given, delta]
    ntok,         \* token requests served so far
    nticks,       \* clock advances so far
    tlast,        \* outcome of the latest token request
    settings,     \* the signing secrets read from the environment
    pending,      \* add_member and invite_member calls between their query
                  \* and their commit: [rid, op, cid, requester, user_id,
                  \* role, status, seen]
    hashed_password, \* users.hashed_password
    revoked_log   \* history: the token strings whose record was marked revoked

cvars == <<circles, members, circle_notes, creating, created_ok, nextCircleId,
          nops, last>>
tvars == <<now, refresh_tokens, is_active, issued, ntok, nticks, tlast, settings,
          revoked_log>>
vars == <<circles, members, circle_notes, creating, created_ok, nextCircleId,
          nops, last,
          now, refresh_tokens, is_active, issued, ntok, nticks, tlast, settings,
          pending, hashed_password, revoked_log>>
avars == <<pending, hashed_password>>

\* ------------------------------------------------- circle repository reads
get_circle(cid) == {c \in circles : c.id = cid}

get_circle_member(cid, uid) ==
    {m \in members : m.circle_id = cid /\ m.user_id = uid}

get_user_by_id(uid) == uid \in Users

\* check_user_is_member with the status filter left out
check_user_is_member_AnyStatus(cid, uid) ==
    \E m \in members : m.circle_id = cid /\ m.user_id = uid

check_user_is_member(cid, uid) ==
    \E m \in members :
        m.circle_id = cid /\ m.user_id = uid /\ m.status = "active"

\* check_user_is_owner_or_admin with the status filter left out
check_user_is_owner_or_admin_AnyStatus(cid, uid) ==
    \E c \in get_circle(cid) :
        \/ c.owner_id = uid
        \/ \E m \in members :
              /\ m.circle_id = cid
              /\ m.user_id = uid
              /\ m.role \in {"owner", "admin"}

check_user_is_owner_or_admin(cid, uid) ==
    \E c \in get_circle(cid) :
        \/ c.owner_id = uid
        \/ \E m \in members :
              /\ m.circle_id = cid
              /\ m.user_id = uid
              /\ m.role \in {"owner", "admin"}
              /\ m.status = "active"

get_member_count(cid) ==
    Cardinality({m \in members : m.circle_id = cid /\ m.status = "active"})

\* get_circle_with_member_count counting the rows of every status
get_circle_with_member_count_AllRows(cid) ==
    Cardinality({m \in members : m.circle_id = cid})

\* get_circle_with_member_count: the member_count column of the outer join,
\* the number of the circle's rows with status active
get_circle_with_member_count(cid) ==
    Cardinality({m \in members : m.circle_id = cid /\ m.status = "active"})

\* the circle dictionary a service returns
CircleResponse(cid) ==
    [id |-> cid, member_count |-> get_circle_with_member_count(cid)]

\* get_user_circles: circles joined (inner join) with their member rows,
\* filtered on owner_id or the row's user_id, then made distinct
get_user_circles(uid) ==
    {row[1].id : row \in {<<c, m>> \in circles \X members :
                             /\ m.circle_id = c.id
                             /\ (c.owner_id = uid \/ m.user_id = uid)}}

\* get_circle_notes: the notes linked to the circle
get_circle_notes(cid) ==
    {l.note_id : l \in {x \in circle_notes : x.circle_id = cid}}

\* _check_circle_access
check_circle_access(cid, uid) ==
    \/ \E c \in get_circle(cid) : c.owner_id = uid
    \/ check_user_is_member(cid, uid)

\* role of the row (cid, uid) before a request, "none" when there is no row
RoleOf(cid, uid) ==
    IF get_circle_member(cid, uid) = {} THEN "none"
    ELSE (CHOOSE m \in get_circle_member(cid, uid) : TRUE).role

Outcome(op, err, requester, target, cid) ==
    [op |-> op, err |-> err, self |-> (requester = target),
     pre_role |-> RoleOf(cid, target), requester |-> requester, cid |-> cid,
     out |-> {}, total |-> 0]

Served == /\ nops < MaxOps
          /\ nops' = nops + 1

\* ------------------------------------------------ circle repository writes
\* add_member leaving a row that exists as it is
add_member_InsertOnly(cid, uid, role, status, invited_by) ==
    IF get_circle_member(cid, uid) # {}
    THEN members
    ELSE members \cup {[circle_id |-> cid, user_id |-> uid, role |-> role,
                        status |-> status, invited_by |-> invited_by]}

\* add_member: upsert of the row (cid, uid)
add_member(cid, uid, role, status, invited_by) ==
    IF get_circle_member(cid, uid) # {}
    THEN {IF m.circle_id = cid /\ m.user_id = uid
          THEN [m EXCEPT !.role = role, !.status = status] ELSE m : m \in members}
    ELSE members \cup {[circle_id |-> cid, user_id |-> uid, role |-> role,
                        status |-> status, invited_by |-> invited_by]}

\* invite_member giving an existing row the role named in the invitation
invite_member_AppliesRole(cid, uid, role, inviter_id) ==
    IF get_circle_member(cid, uid) # {}
    THEN {IF m.circle_id = cid /\ m.user_id = uid /\ m.status # "active"
          THEN [m EXCEPT !.status = "invited", !.invited_by = inviter_id,
                         !.role = role]
          ELSE m : m \in members}
    ELSE members \cup {[circle_id |-> cid, user_id |-> uid, role |-> role,
                        status |-> "invited", invited_by |-> inviter_id]}

\* invite_member: an active row is returned as it is, another row is
\* re-invited, a missing row is inserted with status invited
invite_member(cid, uid, role, inviter_id) ==
    IF get_circle_member(cid, uid) # {}
    THEN {IF m.circle_id = cid /\ m.user_id = uid /\ m.status # "active"
          THEN [m EXCEPT !.status = "invited", !.invited_by = inviter_id]
          ELSE m : m \in members}
    ELSE members \cup {[circle_id |-> cid, user_id |-> uid, role |-> role,
                        status |-> "invited", invited_by |-> inviter_id]}

\* update_member: only the fields present in the patch are assigned
update_member(cid, uid, role, status) ==
    {IF m.circle_id = cid /\ m.user_id = uid
     THEN [m EXCEPT !.role = IF role = Unset THEN @ ELSE role,
                    !.status = IF status = Unset THEN @ ELSE status]
     ELSE m : m \in members}

remove_member(cid, uid) == members \ get_circle_member(cid, uid)

\* update_circle: only the fields present in the patch are assigned (of the
\* columns name, description and is_private the model keeps is_private, the
\* one that access checks read)
update_circle(cid, priv) ==
    {IF c.id = cid
     THEN [c EXCEPT !.is_private = IF priv = Unset THEN @ ELSE (priv = "true")]
     ELSE c : c \in circles}

\* ------------------------------------------------------- circle services
\* create_circle, first commit: the Circle row
CreateCircleInsert(owner_id, priv) ==
    /\ Served
    /\ nextCircleId <= MaxCircles
    /\ circles' = circles \cup {[id |-> nextCircleId, owner_id |-> owner_id,
                                 is_private |-> priv]}
    /\ creating' = creating \cup {[id |-> nextCircleId, owner_id |-> owner_id]}
    /\ nextCircleId' = nextCircleId + 1
    /\ last' = [op |-> "create_circle", err |-> "inflight", self |-> TRUE,
                pre_role |-> "none", requester |-> owner_id,
                cid |-> nextCircleId, out |-> {}, total |-> 0]
    /\ UNCHANGED <<members, created_ok>>
    /\ UNCHANGED circle_notes
    /\ UNCHANGED <<tvars, avars>>

\* create_circle, second commit: the owner's CircleMember row.  The insert
\* violates unique_circle_membership when a concurrent request has already
\* written the row (circle, owner), and the foreign key when the circle has
\* been deleted; create_circle_service turns either into a 500.
CreateCircleOwnerRow(e) ==
    /\ e \in creating
    /\ creating' = creating \ {e}
    /\ IF get_circle(e.id) # {} /\ get_circle_member(e.id, e.owner_id) = {}
       THEN /\ members' = members \cup
                  {[circle_id |-> e.id, user_id |-> e.owner_id, role |-> "owner",
                    status |-> "active", invited_by |-> NULL]}
            /\ created_ok' = created_ok \cup {e.id}
            /\ last' = [op |-> "create_circle", err |-> "ok", self |-> TRUE,
                        pre_role |-> "none", requester |-> e.owner_id,
                        cid |-> e.id, out |-> {CircleResponse(e.id)'},
                        total |-> 0]
       ELSE /\ UNCHANGED <<members, created_ok>>
            /\ last' = [op |-> "create_circle", err |-> "Internal", self |-> TRUE,
                        pre_role |-> RoleOf(e.id, e.owner_id),
                        requester |-> e.owner_id, cid |-> e.id,
                        out |-> {}, total |-> 0]
    /\ UNCHANGED <<circles, nextCircleId, nops>>
    /\ UNCHANGED circle_notes
    /\ UNCHANGED <<tvars, avars>>

\* create_circle, second commit raising for a reason of the store's own
\* (connection lost, timeout): the Circle row of the first commit stays
CreateCircleStoreFailure(e) ==
    /\ e \in creating
    /\ creating' = creating \ {e}
    /\ last' = [op |-> "create_circle", err |-> "Internal", self |-> TRUE,
                pre_role |-> RoleOf(e.id, e.owner_id),
                requester |-> e.owner_id, cid |-> e.id, out |-> {}, total |-> 0]
    /\ UNCHANGED <<circles, members, created_ok, nextCircleId, nops>>
    /\ UNCHANGED circle_notes
    /\ UNCHANGED <<tvars, avars>>

\* get_circle_service: a private circle is served to its owner_id and to
\* users with an active row, a public one to everybody
GetCircleErr(cid, requester) ==
    IF get_circle(cid) = {} THEN "NotFound"
    ELSE IF \E c \in get_circle(cid) :
               c.is_private /\ ~check_circle_access(cid, requester)
         THEN "Forbidden"
    ELSE "ok"

get_circle_service(cid, requester) ==
    /\ Served
    /\ last' = [Outcome("get_circle", GetCircleErr(cid, requester),
                        requester, requester, cid)
                EXCEPT !.out = IF GetCircleErr(cid, requester) = "ok"
                               THEN {CircleResponse(cid)} ELSE {}]
    /\ UNCHANGED <<circles, members, creating, created_ok, nextCircleId>>
    /\ UNCHANGED circle_notes
    /\ UNCHANGED <<tvars, avars>>

\* get_user_circles_service: the listed circles, each with its member count,
\* and the total
get_user_circles_service(uid) ==
    /\ Served
    /\ last' = [op |-> "get_user_circles", err |-> "ok", self |-> TRUE,
                pre_role |-> "none", requester |-> uid, cid |-> NULL,
                out |-> {CircleResponse(c) : c \in get_user_circles(uid)},
                total |-> Cardinality(get_user_circles(uid))]
    /\ UNCHANGED <<circles, members, creating, created_ok, nextCircleId>>
    /\ UNCHANGED circle_notes
    /\ UNCHANGED <<tvars, avars>>

UpdateCircleErr(cid, requester) ==
    IF get_circle(cid) = {} THEN "NotFound"
    ELSE IF ~check_user_is_owner_or_admin(cid, requester) THEN "Forbidden"
    ELSE "ok"

update_circle_service(cid, requester, priv) ==
    /\ Served
    /\ last' = [Outcome("update_circle", UpdateCircleErr(cid, requester),
                        requester, requester, cid)
                EXCEPT !.out = IF UpdateCircleErr(cid, requester) = "ok"
                               THEN {CircleResponse(cid)} ELSE {}]
    /\ circles' = IF UpdateCircleErr(cid, requester) = "ok"
                  THEN update_circle(cid, priv) ELSE circles
    /\ UNCHANGED <<members, creating, created_ok, nextCircleId>>
    /\ UNCHANGED circle_notes
    /\ UNCHANGED <<tvars, avars>>

\* DeleteCircleErr accepting every authority
DeleteCircleErr_Authority(cid, requester) ==
    IF get_circle(cid) = {} THEN "NotFound"
    ELSE IF ~check_user_is_owner_or_admin(cid, requester) THEN "Forbidden"
    ELSE "ok"

DeleteCircleErr(cid, requester) ==
    IF get_circle(cid) = {} THEN "NotFound"
    ELSE IF \E c \in get_circle(cid) : c.owner_id # requester THEN "Forbidden"
    ELSE "ok"

\* delete_circle_service with the member and link rows left in place
delete_circle_service_NoCascade(cid, requester) ==
    /\ Served
    /\ last' = [Outcome("delete_circle", DeleteCircleErr(cid, requester),
                        requester, requester, cid)
                EXCEPT !.out = IF DeleteCircleErr(cid, requester) = "ok"
                               THEN get_circle_notes(cid) ELSE {}]
    /\ IF DeleteCircleErr(cid, requester) = "ok"
       THEN /\ circles' = circles \ get_circle(cid)
            /\ UNCHANGED <<members, circle_notes>>
       ELSE UNCHANGED <<circles, members, circle_notes>>
    /\ UNCHANGED <<creating, created_ok, nextCircleId>>
    /\ UNCHANGED <<tvars, avars>>

\* delete_circle: the relationship cascade (all, delete-orphan) removes the
\* circle's member rows and its circle_notes rows; out keeps the notes whose
\* links went with the circle
delete_circle_service(cid, requester) ==
    /\ Served
    /\ last' = [Outcome("delete_circle", DeleteCircleErr(cid, requester),
                        requester, requester, cid)
                EXCEPT !.out = IF DeleteCircleErr(cid, requester) = "ok"
                               THEN get_circle_notes(cid) ELSE {}]
    /\ IF DeleteCircleErr(cid, requester) = "ok"
       THEN /\ circles' = circles \ get_circle(cid)
            /\ members' = {m \in members : m.circle_id # cid}
            /\ circle_notes' = {l \in circle_notes : l.circle_id # cid}
       ELSE UNCHANGED <<circles, members, circle_notes>>
    /\ UNCHANGED <<creating, created_ok, nextCircleId>>
    /\ UNCHANGED <<tvars, avars>>

AddMemberErr(cid, requester, uid) ==
    IF get_circle(cid) = {} THEN "NotFound"
    ELSE IF ~check_user_is_owner_or_admin(cid, requester) THEN "Forbidden"
    ELSE IF ~get_user_by_id(uid) THEN "NotFound"
    ELSE "ok"

add_member_service(cid, requester, uid, role, status) ==
    /\ Served
    /\ last' = Outcome("add_member", AddMemberErr(cid, requester, uid),
                       requester, uid, cid)
    /\ members' = IF AddMemberErr(cid, requester, uid) = "ok"
                  THEN add_member(cid, uid, role, status, requester)
                  ELSE members
    /\ UNCHANGED <<circles, creating, created_ok, nextCircleId>>
    /\ UNCHANGED circle_notes
    /\ UNCHANGED <<tvars, avars>>

\* the service answers 400 for a user whose row is active before it reaches
\* the repository
InviteMemberErr(cid, requester, uid) ==
    IF get_circle(cid) = {} THEN "NotFound"
    ELSE IF ~check_user_is_owner_or_admin(cid, requester) THEN "Forbidden"
    ELSE IF ~get_user_by_id(uid) THEN "NotFound"
    ELSE IF \E m \in get_circle_member(cid, uid) : m.status = "active"
         THEN "BadRequest"
    ELSE "ok"

invite_member_service(cid, requester, uid, role) ==
    /\ Served
    /\ last' = Outcome("invite_member", InviteMemberErr(cid, requester, uid),
                       requester, uid, cid)
    /\ members' = IF InviteMemberErr(cid, requester, uid) = "ok"
                  THEN invite_member(cid, uid, role, requester)
                  ELSE members
    /\ UNCHANGED <<circles, creating, created_ok, nextCircleId>>
    /\ UNCHANGED circle_notes
    /\ UNCHANGED <<tvars, avars>>

UpdateMemberErr(cid, requester, uid, role) ==
    IF get_circle(cid) = {} THEN "NotFound"
    ELSE IF get_circle_member(cid, uid) = {} THEN "NotFound"
    ELSE IF ~check_user_is_owner_or_admin(cid, requester) THEN "Forbidden"
    ELSE IF RoleOf(cid, uid) = "owner" /\ role # Unset /\ role # "owner"
         THEN "OwnerRoleImmutable"
    ELSE "ok"

\* out keeps the row the call found, as it was before the update
update_member_service(cid, requester, uid, role, status) ==
    /\ Served
    /\ last' = [Outcome("update_member", UpdateMemberErr(cid, requester, uid, role),
                        requester, uid, cid)
                EXCEPT !.out = IF UpdateMemberErr(cid, requester, uid, role) = "ok"
                               THEN get_circle_member(cid, uid) ELSE {}]
    /\ members' = IF UpdateMemberErr(cid, requester, uid, role) = "ok"
                  THEN update_member(cid, uid, role, status)
                  ELSE members
    /\ UNCHANGED <<circles, creating, created_ok, nextCircleId>>
    /\ UNCHANGED circle_notes
    /\ UNCHANGED <<tvars, avars>>

\* RemoveMemberErr with the self-removal exemption left out
RemoveMemberErr_AuthorityOnly(cid, requester, uid) ==
    IF get_circle(cid) = {} THEN "NotFound"
    ELSE IF get_circle_member(cid, uid) = {} THEN "NotFound"
    ELSE IF ~check_user_is_owner_or_admin(cid, requester) THEN "Forbidden"
    ELSE IF RoleOf(cid, uid) = "owner" THEN "OwnerCannotLeave"
    ELSE "ok"

RemoveMemberErr(cid, requester, uid) ==
    IF get_circle(cid) = {} THEN "NotFound"
    ELSE IF get_circle_member(cid, uid) = {} THEN "NotFound"
    ELSE IF ~(check_user_is_owner_or_admin(cid, requester) \/ uid = requester)
         THEN "Forbidden"
    ELSE IF RoleOf(cid, uid) = "owner" THEN "OwnerCannotLeave"
    ELSE "ok"

remove_member_service(cid, requester, uid) ==
    /\ Served
    /\ last' = Outcome("remove_member", RemoveMemberErr(cid, requester, uid),
                       requester, uid, cid)
    /\ members' = IF RemoveMemberErr(cid, requester, uid) = "ok"
                  THEN remove_member(cid, uid)
                  ELSE members
    /\ UNCHANGED <<circles, creating, created_ok, nextCircleId>>
    /\ UNCHANGED circle_notes
    /\ UNCHANGED <<tvars, avars>>

\* ------------------------------------------------------- notes in circles
\* table notes: note n exists for every user n and belongs to that user
notes == {[id |-> u, user_id |-> u] : u \in Users}

get_note(nid) == {n \in notes : n.id = nid}

check_note_in_circle(cid, nid) ==
    [circle_id |-> cid, note_id |-> nid] \in circle_notes

\* add_note_to_circle inserting without looking for the link first: the
\* constraint unique_circle_note rejects the second row for a pair
add_note_to_circle_AlwaysInsert(cid, nid) ==
    IF check_note_in_circle(cid, nid)
    THEN [rows |-> circle_notes, raised |-> TRUE]
    ELSE [rows |-> circle_notes \cup {[circle_id |-> cid, note_id |-> nid]},
          raised |-> FALSE]

\* add_note_to_circle: an existing link is returned as it is, otherwise the
\* row is inserted; rows is the table afterwards, raised tells whether the
\* store raised
add_note_to_circle(cid, nid) ==
    IF check_note_in_circle(cid, nid)
    THEN [rows |-> circle_notes, raised |-> FALSE]
    ELSE [rows |-> circle_notes \cup {[circle_id |-> cid, note_id |-> nid]},
          raised |-> FALSE]

remove_note_from_circle(cid, nid) ==
    circle_notes \ {[circle_id |-> cid, note_id |-> nid]}

\* get_circle_notes_service: served to the circle's owner_id and to every
\* user with a member row in the circle
GetCircleNotesErr(cid, requester) ==
    IF get_circle(cid) = {} THEN "NotFound"
    ELSE IF /\ \A c \in get_circle(cid) : c.owner_id # requester
            /\ get_circle_member(cid, requester) = {}
         THEN "Forbidden"
    ELSE "ok"

get_circle_notes_service(cid, requester) ==
    /\ Served
    /\ last' = [Outcome("get_circle_notes", GetCircleNotesErr(cid, requester),
                        requester, requester, cid)
                EXCEPT !.out = IF GetCircleNotesErr(cid, requester) = "ok"
                               THEN get_circle_notes(cid) ELSE {},
                       !.total = IF GetCircleNotesErr(cid, requester) = "ok"
                                 THEN Cardinality(get_circle_notes(cid)) ELSE 0]
    /\ UNCHANGED <<circles, members, circle_notes, creating, created_ok,
                   nextCircleId>>
    /\ UNCHANGED <<tvars, avars>>

\* AddNoteErr with the note ownership test left out
AddNoteErr_AnyNote(cid, nid, requester) ==
    IF get_circle(cid) = {} THEN "NotFound"
    ELSE IF get_note(nid) = {} THEN "NotFound"
    ELSE IF /\ ~check_user_is_member(cid, requester)
            /\ \A c \in get_circle(cid) : c.owner_id # requester
         THEN "Forbidden"
    ELSE "ok"

AddNoteErr(cid, nid, requester) ==
    IF get_circle(cid) = {} THEN "NotFound"
    ELSE IF get_note(nid) = {} THEN "NotFound"
    ELSE IF \E n \in get_note(nid) : n.user_id # requester THEN "Forbidden"
    ELSE IF /\ ~check_user_is_member(cid, requester)
            /\ \A c \in get_circle(cid) : c.owner_id # requester
         THEN "Forbidden"
    ELSE "ok"

\* what add_note_to_circle_service answers: its own checks, then a 500 when
\* the repository raises
AddNoteOutcome(cid, nid, requester) ==
    IF AddNoteErr(cid, nid, requester) # "ok" THEN AddNoteErr(cid, nid, requester)
    ELSE IF add_note_to_circle(cid, nid).raised THEN "Internal"
    ELSE "ok"

\* out keeps the link add_note_to_circle found in place, if any
add_note_to_circle_service(cid, nid, requester) ==
    /\ Served
    /\ last' = [Outcome("add_note_to_circle", AddNoteOutcome(cid, nid, requester),
                        requester, requester, cid)
                EXCEPT !.out = IF AddNoteErr(cid, nid, requester) = "ok"
                               THEN {l \in circle_notes :
                                       l.circle_id = cid /\ l.note_id = nid}
                               ELSE {}]
    /\ circle_notes' = IF AddNoteErr(cid, nid, requester) = "ok"
                       THEN add_note_to_circle(cid, nid).rows ELSE circle_notes
    /\ UNCHANGED <<circles, members, creating, created_ok, nextCircleId>>
    /\ UNCHANGED <<tvars, avars>>

\* remove_note_from_circle_service without the 404 for a pair that is not
\* linked
RemoveNoteErr_NoLinkCheck(cid, nid, requester) ==
    IF get_circle(cid) = {} THEN "NotFound"
    ELSE IF get_note(nid) = {} THEN "NotFound"
    ELSE IF ~(\/ \E n \in get_note(nid) : n.user_id = requester
              \/ check_user_is_owner_or_admin(cid, requester))
         THEN "Forbidden"
    ELSE "ok"

RemoveNoteErr(cid, nid, requester) ==
    IF get_circle(cid) = {} THEN "NotFound"
    ELSE IF get_note(nid) = {} THEN "NotFound"
    ELSE IF ~(\/ \E n \in get_note(nid) : n.user_id = requester
              \/ check_user_is_owner_or_admin(cid, requester))
         THEN "Forbidden"
    ELSE IF ~check_note_in_circle(cid, nid) THEN "NotFound"
    ELSE "ok"

\* out keeps the link that was removed
remove_note_from_circle_service(cid, nid, requester) ==
    /\ Served
    /\ last' = [Outcome("remove_note_from_circle", RemoveNoteErr(cid, nid, requester),
                        requester, requester, cid)
                EXCEPT !.out = IF RemoveNoteErr(cid, nid, requester) = "ok"
                               THEN {l \in circle_notes :
                                       l.circle_id = cid /\ l.note_id = nid}
                               ELSE {}]
    /\ circle_notes' = IF RemoveNoteErr(cid, nid, requester) = "ok"
                       THEN remove_note_from_circle(cid, nid) ELSE circle_notes
    /\ UNCHANGED <<circles, members, creating, created_ok, nextCircleId>>
    /\ UNCHANGED <<tvars, avars>>

CircleIds == 1..MaxCircles
RoleArg == Roles \cup {Unset}
StatusArg == Statuses \cup {Unset}

\* ------------------------------------- add_member and invite_member, by step
\* Each call queries the row (circle_id, user_id) and commits later; other
\* requests are served in between.  seen is the row the query returned.
\* add_member_service down to the query of add_member
AddMemberQuery(cid, requester, uid, role, status) ==
    /\ nops < MaxRaceOps
    /\ nops' = nops + 1
    /\ IF AddMemberErr(cid, requester, uid) = "ok"
       THEN /\ pending' = pending \cup
                  {[rid |-> nops, op |-> "add_member", cid |-> cid,
                    requester |-> requester, user_id |-> uid, role |-> role,
                    status |-> status, seen |-> get_circle_member(cid, uid)]}
            /\ UNCHANGED last
       ELSE /\ last' = Outcome("add_member", AddMemberErr(cid, requester, uid),
                               requester, uid, cid)
            /\ UNCHANGED pending
    /\ UNCHANGED <<circles, members, circle_notes, creating, created_ok,
                   nextCircleId, hashed_password>>
    /\ UNCHANGED tvars

\* invite_member_service down to the query of invite_member
InviteMemberQuery(cid, requester, uid, role) ==
    /\ nops < MaxRaceOps
    /\ nops' = nops + 1
    /\ IF InviteMemberErr(cid, requester, uid) = "ok"
       THEN /\ pending' = pending \cup
                  {[rid |-> nops, op |-> "invite_member", cid |-> cid,
                    requester |-> requester, user_id |-> uid, role |-> role,
                    status |-> "invited", seen |-> get_circle_member(cid, uid)]}
            /\ UNCHANGED last
       ELSE /\ last' = Outcome("invite_member", InviteMemberErr(cid, requester, uid),
                               requester, uid, cid)
            /\ UNCHANGED pending
    /\ UNCHANGED <<circles, members, circle_notes, creating, created_ok,
                   nextCircleId, hashed_password>>
    /\ UNCHANGED tvars

\* the UPDATE a commit emits for a row loaded as old: only the attributes
\* whose assigned value differs from the loaded one are written
FlushRow(m, old, role, status, invited_by) ==
    [m EXCEPT !.role = IF role # old.role THEN role ELSE @,
              !.status = IF status # old.status THEN status ELSE @,
              !.invited_by = IF invited_by # old.invited_by THEN invited_by ELSE @]

\* the rest of add_member: the row seen is updated, or a row is inserted;
\* the insert of a second row for the pair violates unique_circle_member and
\* the service turns the exception into a 500
AddMemberCommitErr(p) ==
    IF p.seen = {} /\ get_circle_member(p.cid, p.user_id) # {} THEN "Internal"
    ELSE "ok"

AddMemberCommit(p) ==
    /\ p \in pending
    /\ p.op = "add_member"
    /\ pending' = pending \ {p}
    /\ members' =
          IF AddMemberCommitErr(p) # "ok" THEN members
          ELSE IF p.seen = {}
          THEN members \cup {[circle_id |-> p.cid, user_id |-> p.user_id,
                              role |-> p.role, status |-> p.status,
                              invited_by |-> p.requester]}
          ELSE {IF m.circle_id = p.cid /\ m.user_id = p.user_id
                THEN FlushRow(m, CHOOSE o \in p.seen : TRUE, p.role, p.status,
                              (CHOOSE o \in p.seen : TRUE).invited_by)
                ELSE m : m \in members}
    /\ last' = [Outcome("add_member", AddMemberCommitErr(p), p.requester,
                        p.user_id, p.cid) EXCEPT !.out = p.seen]
    /\ UNCHANGED <<circles, circle_notes, creating, created_ok, nextCircleId,
                   nops, hashed_password>>
    /\ UNCHANGED tvars

\* the rest of invite_member
InviteMemberCommit(p) ==
    /\ p \in pending
    /\ p.op = "invite_member"
    /\ pending' = pending \ {p}
    /\ members' =
          IF AddMemberCommitErr(p) # "ok" THEN members
          ELSE IF p.seen = {}
          THEN members \cup {[circle_id |-> p.cid, user_id |-> p.user_id,
                              role |-> p.role, status |-> "invited",
                              invited_by |-> p.requester]}
          ELSE {IF m.circle_id = p.cid /\ m.user_id = p.user_id
                THEN FlushRow(m, CHOOSE o \in p.seen : TRUE,
                              (CHOOSE o \in p.seen : TRUE).role, "invited",
                              p.requester)
                ELSE m : m \in members}
    /\ last' = [Outcome("invite_member", AddMemberCommitErr(p), p.requester,
                        p.user_id, p.cid) EXCEPT !.out = p.seen]
    /\ UNCHANGED <<circles, circle_notes, creating, created_ok, nextCircleId,
                   nops, hashed_password>>
    /\ UNCHANGED tvars


\* ------------------------------------------------------------ security/jwt
\* str(sub) at encoding and int(sub) at decoding, on decimal strings
DigitChars == <<"0", "1", "2", "3", "4", "5", "6", "7", "8", "9">>

RECURSIVE NatToStr(_)
NatToStr(n) ==
    IF n < 10 THEN <<DigitChars[n + 1]>>
    ELSE Append(NatToStr(n \div 10), DigitChars[(n % 10) + 1])

IntToStr(n) == IF n < 0 THEN <<"-">> \o NatToStr(0 - n) ELSE NatToStr(n)

isdigit(s) ==
    /\ Len(s) > 0
    /\ \A i \in 1..Len(s) : \E d \in 1..10 : DigitChars[d] = s[i]

DigitVal(c) == (CHOOSE d \in 1..10 : DigitChars[d] = c) - 1

RECURSIVE StrToNat(_)
StrToNat(s) ==
    IF Len(s) = 0 THEN 0
    ELSE 10 * StrToNat(SubSeq(s, 1, Len(s) - 1)) + DigitVal(s[Len(s)])

MinutesPerDay == 1440

DefaultSettings ==
    [JWT_SECRET_KEY |-> "insecure-jwt-key-change-me",
     JWT_REFRESH_SECRET_KEY |-> "insecure-jwt-refresh-key-change-me"]

\* an environment that sets both secrets to the same value
SharedSecretSettings ==
    [JWT_SECRET_KEY |-> "shared", JWT_REFRESH_SECRET_KEY |-> "shared"]

UsernameOf(u) == <<"user", u>>

\* a JWT: its claims and the secret its signature was made with
Jwt(sub, username, exp, token_type, key) ==
    [sub |-> sub, username |-> username, exp |-> exp,
     token_type |-> token_type, key |-> key]

NoToken == Jwt(<<>>, <<>>, 0, "none", "none")

\* a token string that was not signed by this server
ForgedToken == Jwt(IntToStr(1), UsernameOf(1), 1000000, "refresh", "forged")

\* create_access_token: a falsy expires_delta (absent, or a zero timedelta)
\* selects the configured default
create_access_token(uid, given, expires_delta) ==
    Jwt(IntToStr(uid), UsernameOf(uid),
        IF given /\ expires_delta # 0
        THEN now + expires_delta
        ELSE now + ACCESS_TOKEN_EXPIRE_MINUTES,
        "access", settings.JWT_SECRET_KEY)

create_refresh_token(uid) ==
    Jwt(IntToStr(uid), UsernameOf(uid),
        now + REFRESH_TOKEN_EXPIRE_DAYS * MinutesPerDay,
        "refresh", settings.JWT_REFRESH_SECRET_KEY)

\* jwt.decode: the signature first, then the exp claim (expired when exp < now)
decode(token, secret_key) ==
    IF token.key # secret_key THEN "TokenInvalid"
    ELSE IF token.exp < now THEN "TokenExpired"
    ELSE "ok"

\* verify_token with the token_type comparison left out
verify_token_NoTypeCheck(token, secret_key, is_refresh) ==
    decode(token, secret_key)

verify_token(token, secret_key, is_refresh) ==
    IF decode(token, secret_key) # "ok" THEN decode(token, secret_key)
    ELSE IF token.token_type # (IF is_refresh THEN "refresh" ELSE "access")
         THEN "TokenTypeMismatch"
    ELSE "ok"

verify_access_token(token) ==
    verify_token(token, settings.JWT_SECRET_KEY, FALSE)

verify_refresh_token(token) ==
    verify_token(token, settings.JWT_REFRESH_SECRET_KEY, TRUE)

\* the payload verify_token returns: sub becomes an integer when the string
\* consists of digits and stays the string otherwise; username, exp and
\* token_type are the decoded claims
verify_token_payload(token) ==
    [sub |-> IF isdigit(token.sub)
             THEN [is_int |-> TRUE, int |-> StrToNat(token.sub), str |-> <<>>]
             ELSE [is_int |-> FALSE, int |-> 0, str |-> token.sub],
     username |-> token.username,
     exp |-> token.exp,
     token_type |-> token.token_type]

\* the user the payload's sub names after the int() conversion; 0 (no user
\* has this id) when sub is not a decimal string
PayloadSub(token) == IF isdigit(token.sub) THEN StrToNat(token.sub) ELSE 0

\* ------------------------------------------- refresh token repository
get_refresh_token(token) == {r \in refresh_tokens : r.token = token}

\* validate_refresh_token with the revoked filter left out
validate_refresh_token_IgnoreRevoked(token) ==
    {r \in refresh_tokens : r.token = token /\ r.expires_at > now}

validate_refresh_token(token) ==
    {r \in refresh_tokens :
        r.token = token /\ r.revoked = FALSE /\ r.expires_at > now}

\* revoke_refresh_token flipping the flag instead of setting it
revoke_refresh_token_Toggle(token) ==
    {IF r.token = token THEN [r EXCEPT !.revoked = ~@] ELSE r :
        r \in refresh_tokens}

revoke_refresh_token(token) ==
    {IF r.token = token THEN [r EXCEPT !.revoked = TRUE] ELSE r :
        r \in refresh_tokens}

\* revoke_all_user_tokens with the user_id filter left out
revoke_all_user_tokens_EveryUser(uid) ==
    {[r EXCEPT !.revoked = TRUE] : r \in refresh_tokens}

revoke_all_user_tokens(uid) ==
    {IF r.user_id = uid /\ r.revoked = FALSE
     THEN [r EXCEPT !.revoked = TRUE] ELSE r : r \in refresh_tokens}

delete_expired_tokens == {r \in refresh_tokens : ~(r.expires_at < now)}

\* ------------------------------------------------------- token requests
NoRequest ==
    [op |-> "none", err |-> "ok", token |-> NoToken, at |-> 0, out |-> {}, n |-> 0]

Answer(op, err, token, out, n) ==
    [op |-> op, err |-> err, token |-> token, at |-> now, out |-> out, n |-> n]

TokServed == /\ ntok < MaxTokOps
             /\ ntok' = ntok + 1

JwtCalled == /\ ntok < MaxJwtOps
             /\ ntok' = ntok + 1

\* create_tokens_for_user: both tokens are minted, nothing is written
create_tokens_for_user(uid) ==
    {create_access_token(uid, FALSE, 0), create_refresh_token(uid)}

IssueLog(tokens, sub, given, delta) ==
    {[token |-> t, sub |-> sub, at |-> now, given |-> given, delta |-> delta] :
        t \in tokens}

\* services.auth: the hash is not the password, and verify_password accepts
\* exactly the password the hash was made from
Passwords == {"Passw0rd-A", "Passw0rd-B"}
InitialPassword == "Passw0rd-A"
get_password_hash(password) == <<"bcrypt", password>>
verify_password(plain_password, hashed) == hashed = get_password_hash(plain_password)

LoginErr(uid, password_ok) ==
    IF ~(get_user_by_id(uid) /\ password_ok) THEN "Unauthenticated"
    ELSE IF ~is_active[uid] THEN "Unauthenticated"
    ELSE "ok"

login(uid, password_ok) ==
    /\ TokServed
    /\ IF LoginErr(uid, password_ok) = "ok"
       THEN /\ issued' = issued \cup IssueLog(create_tokens_for_user(uid), uid, FALSE, 0)
            /\ tlast' = Answer("login", "ok", NoToken, create_tokens_for_user(uid), uid)
       ELSE /\ UNCHANGED issued
            /\ tlast' = Answer("login", LoginErr(uid, password_ok), NoToken, {}, 0)
    /\ UNCHANGED <<now, refresh_tokens, is_active, nticks, settings>>
    /\ UNCHANGED <<cvars, avars, revoked_log>>

\* POST /auth/refresh: the token's own signature, expiry and type, then the
\* user row; the refresh_tokens table is not read
\* POST /auth/refresh with the is_active check left out
RefreshErr_IgnoreActive(token) ==
    IF verify_refresh_token(token) # "ok" THEN verify_refresh_token(token)
    ELSE IF ~get_user_by_id(PayloadSub(token)) THEN "Unauthenticated"
    ELSE "ok"

RefreshErr(token) ==
    IF verify_refresh_token(token) # "ok" THEN verify_refresh_token(token)
    ELSE IF ~get_user_by_id(PayloadSub(token)) THEN "Unauthenticated"
    ELSE IF ~is_active[PayloadSub(token)] THEN "Unauthenticated"
    ELSE "ok"

refresh_token(token) ==
    /\ TokServed
    /\ IF RefreshErr(token) = "ok"
       THEN /\ issued' = issued \cup
                  IssueLog(create_tokens_for_user(PayloadSub(token)), PayloadSub(token),
                           FALSE, 0)
            /\ tlast' = Answer("refresh", "ok", token,
                               create_tokens_for_user(PayloadSub(token)),
                               PayloadSub(token))
       ELSE /\ UNCHANGED issued
            /\ tlast' = Answer("refresh", RefreshErr(token), token, {}, 0)
    /\ UNCHANGED <<now, refresh_tokens, is_active, nticks, settings>>
    /\ UNCHANGED <<cvars, avars, revoked_log>>

\* POST /users/me/change-password: get_current_user verifies the access
\* token, change_password_service checks the user and the current password
\* and stores the hash of the new one; the refresh_tokens table is not touched
ChangePasswordErr(token, current_password) ==
    IF verify_access_token(token) # "ok" THEN verify_access_token(token)
    ELSE IF ~get_user_by_id(PayloadSub(token)) THEN "NotFound"
    ELSE IF ~verify_password(current_password, hashed_password[PayloadSub(token)])
         THEN "BadRequest"
    ELSE "ok"

change_password(token, current_password, new_password) ==
    /\ TokServed
    /\ IF ChangePasswordErr(token, current_password) = "ok"
       THEN /\ hashed_password' = [hashed_password EXCEPT
                   ![PayloadSub(token)] = get_password_hash(new_password)]
            /\ tlast' = Answer("change_password", "ok", token, {}, PayloadSub(token))
       ELSE /\ UNCHANGED hashed_password
            /\ tlast' = Answer("change_password",
                               ChangePasswordErr(token, current_password), token, {}, 0)
    /\ UNCHANGED <<now, refresh_tokens, is_active, issued, nticks, settings, pending>>
    /\ UNCHANGED <<cvars, revoked_log>>

\* POST /users/{user_id}/deactivate: any verified access token, then
\* deactivate_user_service
DeactivateErr(token, user_id) ==
    IF verify_access_token(token) # "ok" THEN verify_access_token(token)
    ELSE IF ~get_user_by_id(user_id) THEN "NotFound"
    ELSE IF ~is_active[user_id] THEN "BadRequest"
    ELSE "ok"

deactivate_user_by_id(token, user_id) ==
    /\ TokServed
    /\ IF DeactivateErr(token, user_id) = "ok"
       THEN /\ is_active' = [is_active EXCEPT ![user_id] = FALSE]
            /\ tlast' = Answer("deactivate_user", "ok", token, {}, user_id)
       ELSE /\ UNCHANGED is_active
            /\ tlast' = Answer("deactivate_user", DeactivateErr(token, user_id),
                               token, {}, 0)
    /\ UNCHANGED <<now, refresh_tokens, issued, nticks, settings, avars>>
    /\ UNCHANGED <<cvars, revoked_log>>

\* POST /users/{user_id}/activate
ActivateErr(token, user_id) ==
    IF verify_access_token(token) # "ok" THEN verify_access_token(token)
    ELSE IF ~get_user_by_id(user_id) THEN "NotFound"
    ELSE IF is_active[user_id] THEN "BadRequest"
    ELSE "ok"

activate_user_by_id(token, user_id) ==
    /\ TokServed
    /\ IF ActivateErr(token, user_id) = "ok"
       THEN /\ is_active' = [is_active EXCEPT ![user_id] = TRUE]
            /\ tlast' = Answer("activate_user", "ok", token, {}, user_id)
       ELSE /\ UNCHANGED is_active
            /\ tlast' = Answer("activate_user", ActivateErr(token, user_id),
                               token, {}, 0)
    /\ UNCHANGED <<now, refresh_tokens, issued, nticks, settings, avars>>
    /\ UNCHANGED <<cvars, revoked_log>>

\* security.jwt.create_access_token called with an explicit expires_delta
IssueAccessToken(uid, given, expires_delta) ==
    /\ JwtCalled
    /\ issued' = issued \cup
          IssueLog({create_access_token(uid, given, expires_delta)}, uid,
                   given, expires_delta)
    /\ tlast' = Answer("create_access_token", "ok", NoToken,
                       {create_access_token(uid, given, expires_delta)}, uid)
    /\ UNCHANGED <<now, refresh_tokens, is_active, nticks, settings>>
    /\ UNCHANGED <<cvars, avars, revoked_log>>

\* security.jwt.create_refresh_token
IssueRefreshToken(uid) ==
    /\ JwtCalled
    /\ issued' = issued \cup IssueLog({create_refresh_token(uid)}, uid, FALSE, 0)
    /\ tlast' = Answer("create_refresh_token", "ok", NoToken,
                       {create_refresh_token(uid)}, uid)
    /\ UNCHANGED <<now, refresh_tokens, is_active, nticks, settings>>
    /\ UNCHANGED <<cvars, avars, revoked_log>>

VerifyAccessToken(token) ==
    /\ JwtCalled
    /\ tlast' = Answer("verify_access_token", verify_access_token(token), token,
                       IF verify_access_token(token) = "ok"
                       THEN {verify_token_payload(token)} ELSE {}, 0)
    /\ UNCHANGED <<now, refresh_tokens, is_active, issued, nticks, settings>>
    /\ UNCHANGED <<cvars, avars, revoked_log>>

VerifyRefreshToken(token) ==
    /\ JwtCalled
    /\ tlast' = Answer("verify_refresh_token", verify_refresh_token(token), token,
                       IF verify_refresh_token(token) = "ok"
                       THEN {verify_token_payload(token)} ELSE {}, 0)
    /\ UNCHANGED <<now, refresh_tokens, is_active, issued, nticks, settings>>
    /\ UNCHANGED <<cvars, avars, revoked_log>>

\* refresh_token_repository.create_refresh_token; the unique index on token
\* rejects a second row for the same string
StoreRefreshToken(token, uid, expires_at) ==
    /\ TokServed
    /\ IF get_refresh_token(token) = {}
       THEN /\ refresh_tokens' = refresh_tokens \cup
                  {[token |-> token, user_id |-> uid, expires_at |-> expires_at,
                    revoked |-> FALSE]}
            /\ tlast' = Answer("store_refresh_token", "ok", token, {}, uid)
       ELSE /\ UNCHANGED refresh_tokens
            /\ tlast' = Answer("store_refresh_token", "IntegrityError", token, {}, uid)
    /\ UNCHANGED <<now, is_active, issued, nticks, settings>>
    /\ UNCHANGED <<cvars, avars, revoked_log>>

ValidateRefreshToken(token) ==
    /\ TokServed
    /\ tlast' = Answer("validate_refresh_token",
                       IF validate_refresh_token(token) # {} THEN "valid" ELSE "invalid",
                       token, {}, 0)
    /\ UNCHANGED <<now, refresh_tokens, is_active, issued, nticks, settings>>
    /\ UNCHANGED <<cvars, avars, revoked_log>>

\* revoke_refresh_token: False ("notfound") without a record, True ("ok")
\* after setting the flag of the record found, kept in out
RevokeRefreshToken(token) ==
    /\ TokServed
    /\ refresh_tokens' = revoke_refresh_token(token)
    /\ tlast' = Answer("revoke_refresh_token",
                       IF get_refresh_token(token) = {} THEN "notfound" ELSE "ok",
                       token, get_refresh_token(token), 0)
    /\ revoked_log' = revoked_log \cup {r.token : r \in get_refresh_token(token)}
    /\ UNCHANGED <<now, is_active, issued, nticks, settings>>
    /\ UNCHANGED <<cvars, avars>>

RevokeAllUserTokens(uid) ==
    /\ TokServed
    /\ refresh_tokens' = revoke_all_user_tokens(uid)
    /\ tlast' = Answer("revoke_all_user_tokens", "ok", NoToken, {},
                       Cardinality({r \in refresh_tokens :
                                      r.user_id = uid /\ r.revoked = FALSE}))
    /\ revoked_log' = revoked_log \cup
          {r.token : r \in {x \in refresh_tokens : x.user_id = uid}}
    /\ UNCHANGED <<now, is_active, issued, nticks, settings>>
    /\ UNCHANGED <<cvars, avars>>

DeleteExpiredTokens ==
    /\ TokServed
    /\ refresh_tokens' = delete_expired_tokens
    /\ tlast' = Answer("delete_expired_tokens", "ok", NoToken, {},
                       Cardinality({r \in refresh_tokens : r.expires_at < now}))
    /\ UNCHANGED <<now, is_active, issued, nticks, settings>>
    /\ UNCHANGED <<cvars, avars, revoked_log>>

\* the wall clock
Tick(dt) ==
    /\ nticks < MaxTicks
    /\ nticks' = nticks + 1
    /\ now' = now + dt
    /\ UNCHANGED <<refresh_tokens, is_active, issued, ntok, tlast, settings>>
    /\ UNCHANGED <<cvars, avars, revoked_log>>

TickSteps == {1, ACCESS_TOKEN_EXPIRE_MINUTES,
              REFRESH_TOKEN_EXPIRE_DAYS * MinutesPerDay}
Deltas == {0, 1}
KnownTokens == {e.token : e \in issued} \cup {ForgedToken}

CircleInit ==
    /\ circles = {}
    /\ members = {}
    /\ circle_notes = {}
    /\ creating = {}
    /\ created_ok = {}
    /\ nextCircleId = 1
    /\ nops = 0
    /\ last = [op |-> "none", err |-> "ok", self |-> FALSE, pre_role |-> "none",
               requester |-> NULL, cid |-> NULL, out |-> {}, total |-> 0]

TokenIdle ==
    /\ now = 0
    /\ refresh_tokens = {}
    /\ is_active = [u \in Users |-> TRUE]
    /\ issued = {}
    /\ ntok = 0
    /\ nticks = 0
    /\ tlast = NoRequest
    /\ settings = DefaultSettings
    /\ revoked_log = {}

TokenNext ==
    \/ \E u \in UserIds, ok \in BOOLEAN : login(u, ok)
    \/ \E t \in KnownTokens : refresh_token(t)
    \/ \E t \in KnownTokens, e \in {1, REFRESH_TOKEN_EXPIRE_DAYS * MinutesPerDay} :
          StoreRefreshToken(t, PayloadSub(t), now + e)
    \/ \E t \in KnownTokens : ValidateRefreshToken(t)
    \/ \E t \in KnownTokens : RevokeRefreshToken(t)
    \/ \E u \in Users : RevokeAllUserTokens(u)
    \/ DeleteExpiredTokens
    \/ \E dt \in TickSteps : Tick(dt)

\* no add_member or invite_member call in flight; every user registered
\* with InitialPassword
AccountIdle ==
    /\ pending = {}
    /\ hashed_password = [u \in Users |-> get_password_hash(InitialPassword)]

TokenInit == CircleInit /\ TokenIdle /\ AccountIdle

TokenSpec == TokenInit /\ [][TokenNext]_vars

\* the account requests: login, refresh, change of password, deactivation
\* and activation
AccountInit == CircleInit /\ TokenIdle /\ AccountIdle

AccountNext ==
    \/ \E u \in UserIds, p \in Passwords :
          login(u, u \in Users /\ verify_password(p, hashed_password[u]))
    \/ \E t \in KnownTokens : refresh_token(t)
    \/ \E t \in KnownTokens, c \in Passwords, n \in Passwords :
          change_password(t, c, n)
    \/ \E t \in KnownTokens, u \in UserIds : deactivate_user_by_id(t, u)
    \/ \E t \in KnownTokens, u \in UserIds : activate_user_by_id(t, u)
    \/ \E dt \in TickSteps : Tick(dt)

AccountSpec == AccountInit /\ [][AccountNext]_vars

\* the security.jwt functions on their own, under either configuration of
\* the two secrets
JwtInit ==
    /\ now = 0
    /\ refresh_tokens = {}
    /\ is_active = [u \in Users |-> TRUE]
    /\ issued = {}
    /\ ntok = 0
    /\ nticks = 0
    /\ tlast = NoRequest
    /\ settings \in {DefaultSettings, SharedSecretSettings}
    /\ revoked_log = {}

JwtNext ==
    \/ \E u \in Users : IssueAccessToken(u, FALSE, 0)
    \/ \E u \in Users, d \in Deltas : IssueAccessToken(u, TRUE, d)
    \/ \E u \in Users : IssueRefreshToken(u)
    \/ \E t \in KnownTokens : VerifyAccessToken(t)
    \/ \E t \in KnownTokens : VerifyRefreshToken(t)
    \/ \E dt \in TickSteps : Tick(dt)

JwtStart == CircleInit /\ JwtInit /\ AccountIdle

JwtSpec == JwtStart /\ [][JwtNext]_vars

\* create followed by verify, for the ids a caller can put in sub
SubIds == (0 - 1)..MaxSub

SubNext ==
    \/ \E id \in SubIds : IssueAccessToken(id, FALSE, 0)
    \/ \E id \in SubIds : IssueRefreshToken(id)
    \/ \E t \in KnownTokens : VerifyAccessToken(t)
    \/ \E t \in KnownTokens : VerifyRefreshToken(t)

SubSpec == JwtStart /\ [][SubNext]_vars

Init == CircleInit /\ TokenIdle /\ AccountIdle

Next ==
    \/ \E u \in Users, p \in BOOLEAN : CreateCircleInsert(u, p)
    \/ \E e \in creating : CreateCircleOwnerRow(e)
    \/ \E e \in creating : CreateCircleStoreFailure(e)
    \/ \E c \in CircleIds, r \in Users, p \in {"true", "false", Unset} :
          update_circle_service(c, r, p)
    \/ \E c \in CircleIds, r \in Users : delete_circle_service(c, r)
    \/ \E c \in CircleIds, r \in Users, u \in UserIds, ro \in Roles,
          st \in Statuses : add_member_service(c, r, u, ro, st)
    \/ \E c \in CircleIds, r \in Users, u \in UserIds, ro \in Roles :
          invite_member_service(c, r, u, ro)
    \/ \E c \in CircleIds, r \in Users, u \in UserIds, ro \in RoleArg,
          st \in StatusArg : update_member_service(c, r, u, ro, st)
    \/ \E c \in CircleIds, r \in Users, u \in UserIds :
          remove_member_service(c, r, u)
    \/ \E c \in CircleIds, r \in Users : get_circle_service(c, r)
    \/ \E u \in Users : get_user_circles_service(u)
    \/ \E c \in CircleIds, r \in Users : get_circle_notes_service(c, r)
    \/ \E c \in CircleIds, n \in UserIds, r \in Users :
          add_note_to_circle_service(c, n, r)
    \/ \E c \in CircleIds, n \in UserIds, r \in Users :
          remove_note_from_circle_service(c, n, r)

Spec == Init /\ [][Next]_vars

\* add_member and invite_member calls interleaved, on the circle user 1 has
\* created
RaceInit ==
    /\ circles = {[id |-> 1, owner_id |-> 1, is_private |-> FALSE]}
    /\ members = {[circle_id |-> 1, user_id |-> 1, role |-> "owner",
                   status |-> "active", invited_by |-> NULL]}
    /\ circle_notes = {}
    /\ creating = {}
    /\ created_ok = {1}
    /\ nextCircleId = 2
    /\ nops = 0
    /\ last = [op |-> "none", err |-> "ok", self |-> FALSE, pre_role |-> "none",
               requester |-> NULL, cid |-> NULL, out |-> {}, total |-> 0]
    /\ TokenIdle
    /\ AccountIdle

RaceNext ==
    \/ \E c \in CircleIds, r \in Users, u \in UserIds, ro \in Roles,
          st \in Statuses : AddMemberQuery(c, r, u, ro, st)
    \/ \E c \in CircleIds, r \in Users, u \in UserIds, ro \in Roles :
          InviteMemberQuery(c, r, u, ro)
    \/ \E p \in pending : AddMemberCommit(p)
    \/ \E p \in pending : InviteMemberCommit(p)

RaceSpec == RaceInit /\ [][RaceNext]_vars


\* ================================================================ claims
\* C1: in every state reached by create_circle, add_member, invite_member,
\* update_member, remove_member and update_circle calls, each existing circle
\* (whose create_circle call has returned) has exactly one membership row
\* with role owner, and that row's user_id is the circle's owner_id.
C1_ExactlyOneOwnerRow ==
    \A c \in circles :
        c.id \in created_ok =>
            /\ Cardinality({m \in members :
                              m.circle_id = c.id /\ m.role = "owner"}) = 1
            /\ \A m \in members :
                  (m.circle_id = c.id /\ m.role = "owner") => m.user_id = c.owner_id

\* C2: create_circle writes the Circle row and the owner's row as one atomic
\* step: no state holds a circle without its owner membership row
\* (role owner, status active).
C2_CircleNeverWithoutOwnerRow ==
    \A c \in circles :
        \E m \in members :
            /\ m.circle_id = c.id
            /\ m.user_id = c.owner_id
            /\ m.role = "owner"
            /\ m.status = "active"

\* C3: for a row whose role is owner, every update_member, and every
\* add_member applied to that row, that requests another role fails, whoever
\* asks, and the row's role stays owner; the failure is OwnerRoleImmutable
\* (for a requester without authority the services answer Forbidden before
\* they look at the row, which the formula lets pass).
C3_OwnerRoleImmutable ==
    [][\A c \in CircleIds, r \in Users, u \in Users, ro \in Roles \ {"owner"},
          st \in StatusArg :
          (/\ RoleOf(c, u) = "owner"
           /\ \/ update_member_service(c, r, u, ro, st)
              \/ st \in Statuses /\ add_member_service(c, r, u, ro, st))
          => /\ last'.err = (IF check_user_is_owner_or_admin(c, r)
                             THEN "OwnerRoleImmutable" ELSE "Forbidden")
             /\ \E m \in members' :
                   m.circle_id = c /\ m.user_id = u /\ m.role = "owner"]_vars

\* C4: remove_member with requester = target fails with OwnerCannotLeave and
\* keeps the row when the row's role is owner, and succeeds and deletes the
\* row when its role is admin or member.
C4_SelfRemoval ==
    [][\A c \in CircleIds, r \in Users :
          (remove_member_service(c, r, r) /\ RoleOf(c, r) # "none")
          => IF RoleOf(c, r) = "owner"
             THEN last'.err = "OwnerCannotLeave" /\ members' = members
             ELSE /\ last'.err = "ok"
                  /\ members' = {m \in members :
                                   ~(m.circle_id = c /\ m.user_id = r)}]_vars

\* C4 witness: an admin has just removed their own row
C4_Witness ==
    /\ last.op = "remove_member"
    /\ last.self
    /\ last.pre_role = "admin"
    /\ last.err = "ok"

\* C5: invite_member by an authority for a user whose row is active completes
\* without error and leaves the membership rows as they were.
C5_InviteActiveIsNoop ==
    [][\A c \in CircleIds, r \in Users, u \in Users, ro \in Roles :
          (/\ invite_member_service(c, r, u, ro)
           /\ check_user_is_owner_or_admin(c, r)
           /\ \E m \in get_circle_member(c, u) : m.status = "active")
          => last'.err = "ok" /\ members' = members]_vars

\* C6: once the stored record of refresh token t is revoked, a refresh request
\* presenting t is rejected and issues no tokens.
C6_RevokedTokenRejected ==
    (/\ tlast.op = "refresh"
     /\ \E r \in refresh_tokens : r.token = tlast.token /\ r.revoked)
    => tlast.err # "ok" /\ tlast.out = {}

\* C7: validate_refresh_token(t) at time now reports t valid iff a stored
\* record has token = t, revoked = false and expires_at > now.
C7_ValidIffStoredUnrevokedUnexpired ==
    (tlast.op = "validate_refresh_token" /\ tlast.at = now)
    => ((tlast.err = "valid") <=>
        \E r \in refresh_tokens :
            r.token = tlast.token /\ ~r.revoked /\ r.expires_at > now)

\* C7 witness: a stored, unexpired, revoked token has just been reported invalid
C7_Witness ==
    /\ tlast.op = "validate_refresh_token"
    /\ tlast.at = now
    /\ tlast.err = "invalid"
    /\ \E r \in refresh_tokens :
          r.token = tlast.token /\ r.revoked /\ r.expires_at > now

\* C8: every refresh token returned by login or refresh has a stored record
\* with that token string, the user's id and revoked = false.
C8_IssuedRefreshTokenIsStored ==
    (tlast.op \in {"login", "refresh"} /\ tlast.err = "ok")
    => \A t \in tlast.out :
          t.token_type = "refresh" =>
             \E r \in refresh_tokens :
                r.token = t /\ r.user_id = tlast.n /\ ~r.revoked

\* a verification of an unexpired token that this server issued with the
\* other type
CrossTypeVerification ==
    /\ tlast.op \in {"verify_access_token", "verify_refresh_token"}
    /\ \E e \in issued : e.token = tlast.token
    /\ tlast.token.exp >= tlast.at
    /\ tlast.token.token_type =
          (IF tlast.op = "verify_access_token" THEN "refresh" ELSE "access")

\* C9 as stated: verifying an unexpired token issued with the other type
\* fails with TokenTypeMismatch.
C9_CrossTypeIsTypeMismatch ==
    CrossTypeVerification => tlast.err = "TokenTypeMismatch"

\* C9 amended: it fails and returns no claims; the failure is TokenInvalid
\* when the two signing secrets differ and TokenTypeMismatch when they are
\* the same value.
C9_CrossTypeRejected ==
    CrossTypeVerification =>
        tlast.err = (IF settings.JWT_SECRET_KEY # settings.JWT_REFRESH_SECRET_KEY
                     THEN "TokenInvalid" ELSE "TokenTypeMismatch")

\* C9 witness: a refresh token has just been refused by verify_access_token
\* under the default secrets
C9_Witness ==
    /\ CrossTypeVerification
    /\ tlast.op = "verify_access_token"
    /\ settings = DefaultSettings
    /\ tlast.err = "TokenInvalid"

\* C10: an access token issued at time t with TTL d verifies at every time
\* before t+d and fails with TokenExpired at every time after t+d.
C10_ExpiresAfterTtl ==
    tlast.op = "verify_access_token" =>
        \A e \in issued :
            (e.token = tlast.token /\ e.token.token_type = "access") =>
                LET d == IF e.given THEN e.delta ELSE ACCESS_TOKEN_EXPIRE_MINUTES
                IN  /\ tlast.at < e.at + d => tlast.err = "ok"
                    /\ tlast.at > e.at + d => tlast.err = "TokenExpired"

\* C11: verify_access_token of a token made by create_access_token for user
\* id i and a username returns claims whose sub is the integer i, whose
\* username is the one given and whose token_type is access; the same for
\* verify_refresh_token of a token made by create_refresh_token, with
\* token_type refresh.
C11_SubRoundTrip ==
    \A e \in issued :
        (/\ tlast.op \in {"verify_access_token", "verify_refresh_token"}
         /\ tlast.token = e.token
         /\ e.token.token_type =
               (IF tlast.op = "verify_access_token" THEN "access" ELSE "refresh"))
        => /\ tlast.err = "ok"
           /\ \A p \in tlast.out :
                 /\ p.sub.is_int
                 /\ p.sub.int = e.sub
                 /\ p.username = UsernameOf(e.sub)
                 /\ p.token_type = e.token.token_type
           /\ tlast.out # {}

\* the record of t is revoked already, or t has no record
RevokedOrUnknown(t) ==
    \/ get_refresh_token(t) = {}
    \/ \E r \in get_refresh_token(t) : r.revoked

\* C12 as stated: revoke_refresh_token(t) for a token already revoked or
\* without a record changes no record and returns the not-found signal
\* (false); a second call leaves the state of the first.
C12_RevokeIdempotentNotFound ==
    [][\A t \in KnownTokens :
          RevokeRefreshToken(t) =>
             /\ RevokedOrUnknown(t) =>
                   refresh_tokens' = refresh_tokens /\ tlast'.err = "notfound"
             /\ (revoke_refresh_token(t))' = refresh_tokens']_vars

\* C12 amended: such a call changes no record and raises no error; it
\* returns false only when t has no record and true when the record exists,
\* revoked already or not; a second call leaves the state of the first.
C12_RevokeIdempotent ==
    [][\A t \in KnownTokens :
          RevokeRefreshToken(t) =>
             /\ RevokedOrUnknown(t) =>
                   /\ refresh_tokens' = refresh_tokens
                   /\ tlast'.err = (IF get_refresh_token(t) = {}
                                    THEN "notfound" ELSE "ok")
             /\ (revoke_refresh_token(t))' = refresh_tokens']_vars

\* C12 witness: revoke_refresh_token has just returned true for a record
\* that was revoked before the call
C12_Witness ==
    /\ tlast.op = "revoke_refresh_token"
    /\ tlast.err = "ok"
    /\ \E r \in tlast.out : r.revoked

\* C13: revoke_all_user_tokens(u) leaves every record of u revoked, returns
\* the number of u's records that were not revoked before the call, and
\* leaves the records of every other user as they were.
C13_RevokeAllForUser ==
    [][\A u \in Users :
          RevokeAllUserTokens(u) =>
             /\ \A r \in refresh_tokens' : r.user_id = u => r.revoked
             /\ {r.token : r \in {x \in refresh_tokens' : x.user_id = u}} =
                {r.token : r \in {x \in refresh_tokens : x.user_id = u}}
             /\ tlast'.n = Cardinality({r \in refresh_tokens :
                                          r.user_id = u /\ ~r.revoked})
             /\ {r \in refresh_tokens' : r.user_id # u} =
                {r \in refresh_tokens : r.user_id # u}]_vars

\* C13 witness: revoke_all_user_tokens has just revoked a record while a
\* record of another user stays unrevoked
C13_Witness ==
    /\ tlast.op = "revoke_all_user_tokens"
    /\ tlast.n >= 1
    /\ \E r \in refresh_tokens : r.revoked
    /\ \E r \in refresh_tokens : ~r.revoked

\* r is the owner_id of circle c, or holds an active row of role owner or
\* admin in it
IsAuthority(c, r) ==
    \/ \E x \in circles : x.id = c /\ x.owner_id = r
    \/ \E m \in members :
          /\ m.circle_id = c /\ m.user_id = r
          /\ m.status = "active" /\ m.role \in {"owner", "admin"}

\* the operations that need authority; remove_member of one's own row is
\* not among them
NeedsAuthority(l) ==
    \/ l.op \in {"add_member", "invite_member", "update_member", "update_circle"}
    \/ l.op = "remove_member" /\ ~l.self

\* the step serves a request that needs authority, made on an existing circle
\* by a requester without it
NonAuthorityCall ==
    /\ nops' = nops + 1
    /\ NeedsAuthority(last')
    /\ get_circle(last'.cid) # {}
    /\ ~IsAuthority(last'.cid, last'.requester)

\* C14 as stated: on an existing circle, add_member, invite_member,
\* update_member, update_circle and remove_member of another user, called by a
\* requester without authority, fail with Forbidden and change no circle and
\* no membership row.
C14_NonAuthorityForbidden ==
    [][NonAuthorityCall
          => /\ last'.err = "Forbidden"
             /\ circles' = circles
             /\ members' = members]_vars

\* C14 amended: such a call fails and changes no circle and no membership
\* row; the failure is Forbidden, except that update_member and remove_member
\* look the target row up first and answer NotFound when it does not exist.
C14_NonAuthorityRefused ==
    [][NonAuthorityCall
          => /\ last'.err =
                  (IF last'.op \in {"update_member", "remove_member"}
                      /\ last'.pre_role = "none"
                   THEN "NotFound" ELSE "Forbidden")
             /\ circles' = circles
             /\ members' = members]_vars

\* C14 witness: a user whose own row has role admin without being active has
\* just been refused an update_member of that row
C14_Witness ==
    /\ last.op = "update_member"
    /\ last.self
    /\ last.pre_role = "admin"
    /\ last.err = "Forbidden"

\* the read-access rule: a public circle for everybody, a private one for its
\* owner_id and for users whose row in it has status active
ReadAllowed(c, r) ==
    \E x \in circles :
        /\ x.id = c
        /\ \/ ~x.is_private
           \/ x.owner_id = r
           \/ \E m \in members :
                 m.circle_id = c /\ m.user_id = r /\ m.status = "active"

\* C15: get_circle_service on an existing circle succeeds iff the circle is
\* public, or the requester is its owner_id or has a row with status active;
\* every other requester (row invited or inactive, or no row) gets Forbidden.
C15_ReadAccess ==
    (last.op = "get_circle" /\ get_circle(last.cid) # {})
    => /\ (last.err = "ok") <=> ReadAllowed(last.cid, last.requester)
       /\ ~ReadAllowed(last.cid, last.requester) => last.err = "Forbidden"

\* C15 witness: a user whose row is invited has just been refused the read of
\* a private circle
C15_Witness ==
    /\ last.op = "get_circle"
    /\ last.err = "Forbidden"
    /\ \E m \in members :
          /\ m.circle_id = last.cid /\ m.user_id = last.requester
          /\ m.status = "invited"

\* C16: get_circle_notes_service on an existing circle is permitted exactly
\* when get_circle_service is: for everybody on a public circle, on a private
\* one only for the owner_id and for users whose row has status active.
C16_ListSharedAsRead ==
    (last.op = "get_circle_notes" /\ get_circle(last.cid) # {})
    => /\ (last.err = "ok") <=> (GetCircleErr(last.cid, last.requester) = "ok")
       /\ (last.err = "ok") <=> ReadAllowed(last.cid, last.requester)

\* C17: delete_circle_service on an existing circle succeeds only for the
\* requester equal to the circle's owner_id; every other requester, an active
\* admin or a holder of a row with role owner included, gets Forbidden and
\* the circle, its member rows and its links stay.
C17_OnlyOwnerDeletes ==
    [][(/\ nops' = nops + 1
        /\ last'.op = "delete_circle"
        /\ get_circle(last'.cid) # {})
       => IF \E c \in circles : c.id = last'.cid /\ c.owner_id = last'.requester
          THEN last'.err = "ok"
          ELSE /\ last'.err = "Forbidden"
               /\ circles' = circles
               /\ members' = members
               /\ circle_notes' = circle_notes]_vars

\* C17 witness: a user holding an active row of role owner or admin, who is
\* not the owner_id, has just been refused the deletion of a circle that has
\* links
C17_Witness ==
    /\ last.op = "delete_circle"
    /\ last.err = "Forbidden"
    /\ \E c \in circles : c.id = last.cid /\ c.owner_id # last.requester
    /\ \E m \in members :
          /\ m.circle_id = last.cid /\ m.user_id = last.requester
          /\ m.role \in {"owner", "admin"} /\ m.status = "active"
    /\ \E l \in circle_notes : l.circle_id = last.cid

\* C18: every member row and every link refers to an existing circle, so
\* after a successful delete_circle no row references the deleted circle.
C18_NoOrphans ==
    /\ \A m \in members : get_circle(m.circle_id) # {}
    /\ \A l \in circle_notes : get_circle(l.circle_id) # {}

\* C18 witness: a circle that had its owner's row and a link has just been
\* deleted
C18_Witness ==
    /\ last.op = "delete_circle"
    /\ last.err = "ok"
    /\ last.pre_role = "owner"
    /\ last.out # {}
    /\ get_circle(last.cid) = {}

\* the circles of which u is the owner_id or in which u has a row of any
\* status
CirclesOf(u) ==
    {c.id : c \in {x \in circles :
                     \/ x.owner_id = u
                     \/ \E m \in members : m.circle_id = x.id /\ m.user_id = u}}

\* C19: get_user_circles_service(u) returns exactly the circles whose
\* owner_id is u or in which u has a member row of any status, with total
\* their number; a circle is listed for its owner as long as it exists.
C19_ListForUser ==
    last.op = "get_user_circles"
    => /\ {r.id : r \in last.out} = CirclesOf(last.requester)
       /\ last.total = Cardinality(CirclesOf(last.requester))

\* the rows of circle c with status active
ActiveRows(c) == {m \in members : m.circle_id = c /\ m.status = "active"}

C21_ShareRule ==
    [][\A n \in UserIds :
          (/\ last'.op = "add_note_to_circle"
           /\ add_note_to_circle_service(last'.cid, n, last'.requester))
          => IF get_circle(last'.cid) = {} \/ (\A x \in notes : x.id # n)
             THEN last'.err = "NotFound" /\ circle_notes' = circle_notes
             ELSE IF ~(/\ \E x \in notes :
                            x.id = n /\ x.user_id = last'.requester
                       /\ \/ \E c \in circles :
                                c.id = last'.cid /\ c.owner_id = last'.requester
                          \/ \E m \in members :
                                /\ m.circle_id = last'.cid
                                /\ m.user_id = last'.requester
                                /\ m.status = "active")
             THEN last'.err = "Forbidden" /\ circle_notes' = circle_notes
             ELSE /\ last'.err = "ok"
                  /\ circle_notes' = circle_notes \cup
                        {[circle_id |-> last'.cid, note_id |-> n]}]_vars

\* C21 witness: an active member of role member, who is not the owner_id, has
\* just shared a note of their own that had no link
C21_Witness ==
    /\ last.op = "add_note_to_circle"
    /\ last.err = "ok"
    /\ last.out = {}
    /\ \E c \in circles : c.id = last.cid /\ c.owner_id # last.requester
    /\ \E m \in members :
          /\ m.circle_id = last.cid /\ m.user_id = last.requester
          /\ m.status = "active" /\ m.role = "member"
    /\ \E x \in notes :
          /\ x.user_id = last.requester
          /\ [circle_id |-> last.cid, note_id |-> x.id] \in circle_notes

\* C22: the links are rows unique per (circle_id, note_id); sharing a note
\* that is linked already, by a requester allowed to share it, succeeds
\* without error and leaves the links as they were, and
\* get_circle_notes_service reports every linked note once, total being
\* their number.
C22_ShareIdempotent ==
    [][/\ \A n \in UserIds :
             (/\ last'.op = "add_note_to_circle"
              /\ add_note_to_circle_service(last'.cid, n, last'.requester)
              /\ [circle_id |-> last'.cid, note_id |-> n] \in circle_notes
              /\ AddNoteErr(last'.cid, n, last'.requester) = "ok")
             => last'.err = "ok" /\ circle_notes' = circle_notes
       /\ (last'.op = "get_circle_notes" /\ last'.err = "ok")
          => /\ last'.out = {l.note_id : l \in {x \in circle_notes' :
                                                  x.circle_id = last'.cid}}
             /\ last'.total = Cardinality(last'.out)]_vars

\* C22 witness: a note that was linked already has just been shared again
\* without error
C22_Witness ==
    /\ last.op = "add_note_to_circle"
    /\ last.err = "ok"
    /\ last.out # {}
    /\ last.out \subseteq circle_notes

\* C23 as stated: an unshare for a pair that is not linked fails with
\* NotFound and changes nothing, whoever asks.
C23_UnlinkedIsNotFound ==
    [][\A n \in UserIds :
          (/\ last'.op = "remove_note_from_circle"
           /\ remove_note_from_circle_service(last'.cid, n, last'.requester)
           /\ [circle_id |-> last'.cid, note_id |-> n] \notin circle_notes)
          => last'.err = "NotFound" /\ circle_notes' = circle_notes]_vars

\* C23 amended: an unshare fails with NotFound when the circle or the note
\* does not exist, with Forbidden when the requester is neither the note's
\* owner nor a circle authority, with NotFound when such a requester names a
\* pair that is not linked, and changes nothing in these cases; otherwise it
\* succeeds and removes exactly that link, so the note is no longer among
\* the circle's shared notes.
C23_UnshareRule ==
    [][\A n \in UserIds :
          (/\ last'.op = "remove_note_from_circle"
           /\ remove_note_from_circle_service(last'.cid, n, last'.requester))
          => IF get_circle(last'.cid) = {} \/ (\A x \in notes : x.id # n)
             THEN last'.err = "NotFound" /\ circle_notes' = circle_notes
             ELSE IF ~(\/ \E x \in notes : x.id = n /\ x.user_id = last'.requester
                       \/ IsAuthority(last'.cid, last'.requester))
             THEN last'.err = "Forbidden" /\ circle_notes' = circle_notes
             ELSE IF [circle_id |-> last'.cid, note_id |-> n] \notin circle_notes
             THEN last'.err = "NotFound" /\ circle_notes' = circle_notes
             ELSE /\ last'.err = "ok"
                  /\ circle_notes' =
                        circle_notes \ {[circle_id |-> last'.cid, note_id |-> n]}
                  /\ \A l \in circle_notes' :
                        ~(l.circle_id = last'.cid /\ l.note_id = n)]_vars

\* C23 witness: a circle authority who does not own the note has just
\* removed its link
C23_Witness ==
    /\ last.op = "remove_note_from_circle"
    /\ last.err = "ok"
    /\ last.out # {}
    /\ last.out \cap circle_notes = {}
    /\ \E l \in last.out : l.note_id # last.requester
    /\ IsAuthority(last.cid, last.requester)

\* C24: an add_member or invite_member call whose query saw no row for the
\* pair, made by an authority for an existing user, does not end in a hard
\* failure, and each pair has at most one membership row.
C24_RaceNeverFails ==
    /\ (last.op \in {"add_member", "invite_member"} /\ last.out = {})
          => last.err \in {"ok", "NotFound", "Forbidden", "BadRequest"}
    /\ \A m1 \in members, m2 \in members :
          (m1.circle_id = m2.circle_id /\ m1.user_id = m2.user_id) => m1 = m2

\* C25: every (circle_id, user_id) pair has at most one membership row, and
\* an add_member call by an authority for a user who has a row succeeds,
\* gives that row the requested role and status, and neither adds nor
\* removes a row.
C25_AddMemberUpserts ==
    [][/\ \A m1 \in members', m2 \in members' :
             (m1.circle_id = m2.circle_id /\ m1.user_id = m2.user_id) => m1 = m2
       /\ (last'.op = "add_member" /\ nops' = nops + 1)
          => \A old \in {m \in members :
                            /\ m.circle_id = last'.cid
                            /\ m.role = last'.pre_role
                            /\ (m.user_id = last'.requester) = last'.self} :
                \A ro \in Roles, st \in Statuses :
                   (/\ IsAuthority(last'.cid, last'.requester)
                    /\ add_member_service(last'.cid, last'.requester,
                                          old.user_id, ro, st))
                   => /\ last'.err = "ok"
                      /\ members' = (members \ {old})
                                       \cup {[old EXCEPT !.role = ro,
                                                         !.status = st]}]_vars

\* C25 witness: add_member has just succeeded for another user who had a row
\* of a different role and status
C25_Witness ==
    /\ last.op = "add_member"
    /\ last.err = "ok"
    /\ ~last.self
    /\ last.pre_role \in {"member", "admin"}
    /\ \E m \in members :
          /\ m.circle_id = last.cid /\ m.user_id # last.requester
          /\ m.role # last.pre_role /\ m.status = "invited"
          /\ m.invited_by # NULL

\* C26: an invite_member call by an authority for a user whose row has
\* status inactive or invited succeeds, sets that row's status to invited and
\* its invited_by to the requester, and leaves the row's role and every other
\* row as they were, whatever role the invitation names.
C26_ReinviteKeepsRole ==
    [][(last'.op = "invite_member" /\ nops' = nops + 1)
          => \A old \in {m \in members :
                            /\ m.circle_id = last'.cid
                            /\ m.role = last'.pre_role
                            /\ (m.user_id = last'.requester) = last'.self
                            /\ m.status \in {"inactive", "invited"}} :
                \A ro \in Roles :
                   (/\ IsAuthority(last'.cid, last'.requester)
                    /\ invite_member_service(last'.cid, last'.requester,
                                             old.user_id, ro))
                   => /\ last'.err = "ok"
                      /\ members' = (members \ {old})
                            \cup {[old EXCEPT !.status = "invited",
                                              !.invited_by = last'.requester]}
                      /\ Cardinality(members') = Cardinality(members)]_vars

\* C26 witness: an admin has just re-invited a user whose row the owner had
\* made; the row is invited, names the admin as inviter and kept its role
C26_Witness ==
    /\ last.op = "invite_member"
    /\ last.err = "ok"
    /\ last.pre_role \in {"member", "admin"}
    /\ \E c \in circles : c.id = last.cid /\ c.owner_id # last.requester
    /\ \E m \in members :
          /\ m.circle_id = last.cid /\ m.user_id # last.requester
          /\ m.status = "invited" /\ m.invited_by = last.requester
          /\ m.role = last.pre_role

\* C27: a membership row is inactive after a step only if the row of that
\* pair was inactive before it or the step is an update_member call; a
\* successful remove_member call takes one row away.
C27_InactiveOnlyByUpdate ==
    [][/\ \A m \in members' :
             m.status = "inactive"
             => \/ last'.op = "update_member"
                \/ \E o \in members :
                      /\ o.circle_id = m.circle_id /\ o.user_id = m.user_id
                      /\ o.status = "inactive"
       /\ (last'.op = "remove_member" /\ last'.err = "ok" /\ nops' = nops + 1)
          => Cardinality(members') = Cardinality(members) - 1]_vars

\* C28: when change_password succeeds for a user, no refresh token issued to
\* that user before is accepted by refresh any more.
C28_ChangePasswordRevokes ==
    [][(tlast'.op = "change_password" /\ tlast'.err = "ok")
          => \A e \in issued :
                (e.sub = tlast'.n /\ e.token.token_type = "refresh")
                => (RefreshErr(e.token))' # "ok"]_vars

\* C30: login and refresh hand tokens only to users whose is_active is true;
\* for a user whose is_active is false, login with any password and refresh
\* with a refresh token that verifies both answer Unauthenticated, return no
\* token and issue none.
C30_OnlyActiveUsersGetTokens ==
    [][/\ (tlast'.op \in {"login", "refresh"} /\ tlast'.err = "ok")
          => /\ tlast'.n \in Users
             /\ is_active[tlast'.n]
             /\ is_active'[tlast'.n]
       /\ (tlast'.op = "login" /\ ntok' = ntok + 1)
          => \A u \in Users, p \in Passwords :
                (/\ ~is_active[u]
                 /\ login(u, verify_password(p, hashed_password[u])))
                => /\ tlast'.err = "Unauthenticated"
                   /\ tlast'.out = {}
                   /\ issued' = issued
       /\ (/\ tlast'.op = "refresh" /\ ntok' = ntok + 1
           /\ verify_refresh_token(tlast'.token) = "ok"
           /\ PayloadSub(tlast'.token) \in Users
           /\ ~is_active[PayloadSub(tlast'.token)])
          => /\ tlast'.err = "Unauthenticated"
             /\ tlast'.out = {}
             /\ issued' = issued]_vars

\* C30 witness: a refresh token that verifies, issued to a user who has been
\* deactivated since, has just been refused
C30_Witness ==
    /\ tlast.op = "refresh"
    /\ tlast.err = "Unauthenticated"
    /\ tlast.out = {}
    /\ verify_refresh_token(tlast.token) = "ok"
    /\ PayloadSub(tlast.token) \in Users
    /\ ~is_active[PayloadSub(tlast.token)]
    /\ \E e \in issued : e.token = tlast.token

\* C29: a token string whose record was marked revoked at some time has, at
\* every later time and whatever create, revoke, revoke-all and
\* delete-expired calls were made since, no record with revoked = FALSE, and
\* validate_refresh_token does not accept it.
C29_RevocationPermanent ==
    \A t \in revoked_log :
       /\ \A r \in refresh_tokens : r.token = t => r.revoked
       /\ validate_refresh_token(t) = {}

====
